---- MODULE Spec2Model ----
(***************************************************************************)
(* A model of app.py of PO-Pivot-App: parse_size, the row enrichment and   *)
(* the pivot built by generate_pivot_excel.                                *)
(*                                                                         *)
(* Text is a sequence of one-character strings.  A missing cell (pandas    *)
(* NaN) is the one-element sequence <<"NaN">>, which no text equals.       *)
(* Numbers are exact reduced rationals [kind |-> "float", n, d]; the       *)
(* rounding of IEEE doubles is not modelled.  Color and the style labels,   *)
(* which the code only compares, are plain strings.  The PO Number and     *)
(* Ship Dates columns are taken to be filled in: lines 38-39 then succeed. *)
(***************************************************************************)
EXTENDS Integers, Sequences, FiniteSets, TLC

VARIABLES pc, cell, size_val, upc, labels, style_map, csv, result

vars == <<pc, cell, size_val, upc, labels, style_map, csv, result>>

(* ------------------------------ bounds --------------------------------- *)

\* longest text of a Size cell enumerated for parse_size
MaxLen == 5

\* longest text of a UPC/EAN cell enumerated for the style lookup
MaxUpcLen == 3

\* most data rows of an uploaded CSV
MaxRows == 2

(* ------------------------------ values --------------------------------- *)

Digits == {"0", "1", "2", "3", "4", "5", "6", "7", "8", "9"}

\* the characters Size and UPC/EAN cells are enumerated over
Chars == {"0", "1", "2", " ", "/", "."}

NaN == <<"NaN">>

None == [kind |-> "None", n |-> 0, d |-> 1]

NaNValue == [kind |-> "nan", n |-> 0, d |-> 1]

Raised(exc) == [kind |-> exc, n |-> 0, d |-> 1]

RECURSIVE GCD(_, _)
GCD(a, b) == IF b = 0 THEN a ELSE GCD(b, a % b)

Float(n, d) == LET g == GCD(n, d) IN [kind |-> "float", n |-> n \div g, d |-> d \div g]

IsFloat(v) == v.kind = "float"

FloatAdd(a, b) == Float(a.n * b.d + b.n * a.d, a.d * b.d)

FloatLess(a, b) == a.n * b.d < b.n * a.d

DigitVal(c) ==
    CASE c = "0" -> 0 [] c = "1" -> 1 [] c = "2" -> 2 [] c = "3" -> 3 [] c = "4" -> 4
      [] c = "5" -> 5 [] c = "6" -> 6 [] c = "7" -> 7 [] c = "8" -> 8 [] c = "9" -> 9

RECURSIVE DigVal(_)
DigVal(s) ==
    IF s = <<>> THEN 0
    ELSE DigVal(SubSeq(s, 1, Len(s) - 1)) * 10 + DigitVal(s[Len(s)])

RECURSIVE Pow10(_)
Pow10(k) == IF k = 0 THEN 1 ELSE 10 * Pow10(k - 1)

AllDigits(s) == \A i \in 1..Len(s) : s[i] \in Digits

Positions(s, c) == {i \in 1..Len(s) : s[i] = c}

Min(S) == CHOOSE x \in S : \A y \in S : x <= y

(* ------------------------------ text ----------------------------------- *)

\* pandas.read_csv(dtype=str): an empty field is read as NaN
read_csv_cell(text) == IF text = <<>> THEN NaN ELSE text

isna(s) == s = NaN

\* str.strip(): leading and trailing blanks removed
RECURSIVE strip(_)
strip(s) ==
    IF s = <<>> THEN s
    ELSE IF s[1] = " " THEN strip(Tail(s))
    ELSE IF s[Len(s)] = " " THEN strip(SubSeq(s, 1, Len(s) - 1))
    ELSE s

\* str.split(' '): cut at every single blank, empty parts kept
RECURSIVE split(_)
split(s) ==
    IF Positions(s, " ") = {} THEN <<s>>
    ELSE LET i == Min(Positions(s, " "))
         IN <<SubSeq(s, 1, i - 1)>> \o split(SubSeq(s, i + 1, Len(s)))

\* the decimal literals float() and pandas.to_numeric accept over Digits and ".":
\* digits, digits "." digits*, "." digits+
DecimalValue(s) ==
    LET dots == Positions(s, ".")
    IN IF Len(s) = 0 \/ Cardinality(dots) > 1 THEN Raised("ValueError")
       ELSE IF dots = {} THEN
            IF AllDigits(s) THEN Float(DigVal(s), 1) ELSE Raised("ValueError")
       ELSE LET p == Min(dots)
                whole == SubSeq(s, 1, p - 1)
                dec == SubSeq(s, p + 1, Len(s))
            IN IF AllDigits(whole) /\ AllDigits(dec) /\ Len(whole) + Len(dec) > 0
               THEN Float(DigVal(whole \o dec), Pow10(Len(dec)))
               ELSE Raised("ValueError")

\* float(str)
float(s) == DecimalValue(strip(s))

\* fractions.Fraction(str): a decimal literal, or digits "/" digits
Fraction(s) ==
    LET t == strip(s)
        bars == Positions(t, "/")
    IN IF bars = {} THEN DecimalValue(t)
       ELSE IF Cardinality(bars) > 1 THEN Raised("ValueError")
       ELSE LET p == Min(bars)
                num == SubSeq(t, 1, p - 1)
                den == SubSeq(t, p + 1, Len(t))
            IN IF Len(num) = 0 \/ Len(den) = 0 \/ ~AllDigits(num) \/ ~AllDigits(den)
               THEN Raised("ValueError")
               ELSE IF DigVal(den) = 0 THEN Raised("ZeroDivisionError")
               ELSE Float(DigVal(num), DigVal(den))

(* ---------------------------- parse_size ------------------------------- *)

\* float(whole) + float(Fraction(frac)), the first failure propagating
WholePlusFraction(whole, frac) ==
    LET w == float(whole)
        f == Fraction(frac)
    IN IF ~IsFloat(w) THEN w
       ELSE IF ~IsFloat(f) THEN f
       ELSE FloatAdd(w, f)

\* whole, frac = size_str.split(' ')
SplitSize(s) ==
    LET parts == split(s)
    IN IF Len(parts) # 2 THEN Raised("ValueError")
       ELSE WholePlusFraction(parts[1], parts[2])

\* try: float(size_str)  except: None
TryFloat(s) == LET v == float(s) IN IF IsFloat(v) THEN v ELSE None

\* parse_size with the strip() of line 14 left out
parse_size_NoStrip(size_str) ==
    IF isna(size_str) THEN None
    ELSE IF Positions(size_str, " ") # {} THEN SplitSize(size_str) ELSE TryFloat(size_str)

parse_size(size_str) ==
    IF isna(size_str) THEN None
    ELSE LET s == strip(size_str)
         IN IF Positions(s, " ") # {} THEN SplitSize(s) ELSE TryFloat(s)

(* --------------------------- row enrichment ---------------------------- *)

\* pandas.to_numeric(errors='coerce') of one cell: its number, NaN otherwise
to_numeric(s) ==
    IF isna(s) THEN NaNValue
    ELSE LET v == DecimalValue(s) IN IF IsFloat(v) THEN v ELSE NaNValue

\* Series.str.strip() of one cell: NaN stays NaN
str_strip(s) == IF isna(s) THEN NaN ELSE strip(s)

\* StyleMap.style_map: vendor code -> {'KPR': ..., 'Marks': ...}
StyleMap ==
    (Float(1, 1) :> [KPR |-> "StyleA", Marks |-> "StyleX"]) @@
    (Float(12, 1) :> [KPR |-> "StyleB", Marks |-> "StyleY"])

\* dict.get(key, default)
DictGet(dict, key, default) == IF key \in DOMAIN dict THEN dict[key] ELSE default

EmptyDict == <<>>

\* df['Vendor Style'] of a row
VendorStyle(upc_cell) == to_numeric(str_strip(upc_cell))

\* the Mark's Style label read from the 'KPR' entry
StyleLabels_SameKey(map, x) ==
    [KPR |-> DictGet(DictGet(map, x, EmptyDict), "KPR", "Unknown Style"),
     Marks |-> DictGet(DictGet(map, x, EmptyDict), "KPR", "Unknown Style")]

\* df['KPR Style'] and df["Mark's Style"] of a row whose Vendor Style is x
StyleLabels(map, x) ==
    [KPR |-> DictGet(DictGet(map, x, EmptyDict), "KPR", "Unknown Style"),
     Marks |-> DictGet(DictGet(map, x, EmptyDict), "Marks", "Unknown Style")]

(* ------------------------------ the pivot ------------------------------ *)

\* pandas NaN in a column of plain strings (Color)
NaNStr == "NaN"

\* pandas.read_csv(dtype=str) of a Color field: an empty field is read as NaN
read_csv_str(text) == IF text = "" THEN NaNStr ELSE text

\* Series.fillna(0)
fillna0(v) == IF IsFloat(v) THEN v ELSE Float(0, 1)

\* lines 25-35: one row of df after the derived columns are set
EnrichedRow(map, r) ==
    LET style == StyleLabels(map, VendorStyle(read_csv_cell(r.upc)))
    IN [Color |-> read_csv_str(r.color),
        KPR |-> style.KPR,
        Marks |-> style.Marks,
        Qty |-> fillna0(to_numeric(read_csv_cell(r.qty))),
        Size |-> parse_size(read_csv_cell(r.size))]

\* df with the rows of a blank or unparsable quantity dropped, not zero-filled
Enriched_DropBadQty(map, rows) ==
    LET HasQty(r) == IsFloat(to_numeric(read_csv_cell(r.qty)))
        kept == SelectSeq(rows, HasQty)
    IN [i \in 1..Len(kept) |-> EnrichedRow(map, kept[i])]

\* lines 25-35: df, row by row
Enriched(map, rows) == [i \in 1..Len(rows) |-> EnrichedRow(map, rows[i])]

RECURSIVE SeqSum(_)
SeqSum(qs) == IF qs = <<>> THEN Float(0, 1) ELSE FloatAdd(qs[1], SeqSum(Tail(qs)))

Qtys(data) == [i \in 1..Len(data) |-> data[i].Qty]

\* aggfunc='sum' over the rows of one group, fill_value=0 for an empty one
AggSum(data) == SeqSum(Qtys(data))

KeyOf(e) == <<e.Color, e.KPR, e.Marks>>

\* code-point order of the strings that occur as Color or style label
Collation ==
    <<"", "All", "Blue", "Grand Total", "Red", "StyleA", "StyleB", "StyleX", "StyleY",
      "Unknown Style">>

Rank(str) == CHOOSE i \in 1..Len(Collation) : Collation[i] = str

KeyLess(a, b) ==
    \/ Rank(a[1]) < Rank(b[1])
    \/ a[1] = b[1] /\ Rank(a[2]) < Rank(b[2])
    \/ a[1] = b[1] /\ a[2] = b[2] /\ Rank(a[3]) < Rank(b[3])

\* the group keys in the order groupby(sort=True) yields them
RECURSIVE SortedKeys(_)
SortedKeys(S) ==
    IF S = {} THEN <<>>
    ELSE LET least == CHOOSE k \in S : \A o \in S \ {k} : KeyLess(k, o)
         IN <<least>> \o SortedKeys(S \ {least})

RECURSIVE SortedSizes(_)
SortedSizes(S) ==
    IF S = {} THEN <<>>
    ELSE LET least == CHOOSE k \in S : \A o \in S \ {k} : FloatLess(k, o)
         IN <<least>> \o SortedSizes(S \ {least})

\* a column label: a name, or a size
NameCol(name) == [name |-> name, size |-> None]

SizeCol(size) == [name |-> "", size |-> size]

IsSizeCol(c) == IsFloat(c.size)

margins_name == "Grand Total"

\* groupby(..., dropna=True) and the margins' data.notna().all(axis=1): the
\* rows with a Color and a Size
NotNa(data) ==
    LET Keep(e) == e.Color # NaNStr /\ IsFloat(e.Size) IN SelectSeq(data, Keep)

\* the quantity of one cell of the table
CellOf(data, key, size) ==
    LET In(e) == KeyOf(e) = key /\ e.Size = size IN AggSum(SelectSeq(data, In))

\* the margin of a row counted, not summed
RowMargin_Count(data, key) ==
    LET In(e) == KeyOf(e) = key IN Float(Len(SelectSeq(data, In)), 1)

\* the margin of one row: the group's quantities whatever the size
RowMargin(data, key) ==
    LET In(e) == KeyOf(e) = key IN AggSum(SelectSeq(data, In))

\* the margin of one column: the size's quantities whatever the row
ColMargin(data, size) ==
    LET In(e) == e.Size = size IN AggSum(SelectSeq(data, In))

\* lines 42-51: pivot_table(margins=True, margins_name='Grand Total').reset_index()
pivot_table(df) ==
    LET data == NotNa(df)
        keys == {KeyOf(data[i]) : i \in 1..Len(data)}
        sizes == {data[i].Size : i \in 1..Len(data)}
        index == SortedKeys(keys)
        heads == SortedSizes(sizes)
        body == [i \in 1..Len(index) |->
                    LET key == index[i]
                    IN [Color |-> key[1], KPR |-> key[2], Marks |-> key[3],
                        cells |-> [sz \in sizes |-> CellOf(data, key, sz)],
                        total |-> RowMargin(data, key)]]
        margin == [Color |-> margins_name, KPR |-> "", Marks |-> "",
                   cells |-> [sz \in sizes |-> ColMargin(data, sz)],
                   total |-> AggSum(data)]
    IN \* no row left: pandas returns a table without margins (before 2.0 it
       \* raises ValueError) and line 54 finds no 'Grand Total' column
       IF data = <<>> THEN [status |-> "KeyError"]
       \* _add_margins: 'Conflicting name "Grand Total" in margins'
       ELSE IF \E k \in keys : margins_name \in {k[1], k[2], k[3]}
            THEN [status |-> "ValueError"]
       ELSE [status |-> "ok",
             columns |-> <<NameCol("Color"), NameCol("KPR Style"), NameCol("Mark's Style")>>
                         \o [i \in 1..Len(heads) |-> SizeCol(heads[i])]
                         \o <<NameCol(margins_name)>>,
             rows |-> Append(body, margin)]

\* line 52: pivot[~pivot['Color'].eq('All')]
DropAll(rows) ==
    LET Keep(r) == r.Color # "All" IN SelectSeq(rows, Keep)

\* sorted() that compares the sizes as text would: "10" before "2"
sorted_Descending(cols) ==
    LET After(a, b) == FloatLess(b.size, a.size) IN SortSeq(cols, After)

\* sorted() of a list of size labels
sorted(cols) ==
    LET Before(a, b) == FloatLess(a.size, b.size) IN SortSeq(cols, Before)

\* line 53: the labels that are none of the four names, sorted
SizeCols(columns) ==
    LET Fixed == {NameCol("Color"), NameCol("KPR Style"), NameCol("Mark's Style"),
                  NameCol("Grand Total")}
        NotFixed(c) == c \notin Fixed
    IN sorted(SelectSeq(columns, NotFixed))

\* line 54: the emitted column order
Reordered(columns) ==
    <<NameCol("Color"), NameCol("KPR Style"), NameCol("Mark's Style")>>
    \o SizeCols(columns) \o <<NameCol("Grand Total")>>

\* lines 66-69: the merged "Size" header of row 1, or the ValueError openpyxl
\* raises for a range that ends before it starts
MergedHeader(columns) ==
    LET size_start_col == 4
        size_end_col == Len(columns) - 1
    IN IF size_start_col > size_end_col THEN <<>> ELSE <<size_start_col, size_end_col>>

generate_pivot_excel(map, rows) ==
    LET df == Enriched(map, rows)
    IN IF \E i \in 1..Len(df) : df[i].Size.kind \notin {"float", "None"}
       THEN [status |-> (df[CHOOSE i \in 1..Len(df) :
                               /\ df[i].Size.kind \notin {"float", "None"}
                               /\ \A j \in 1..(i - 1) : df[j].Size.kind \in {"float", "None"}
                           ].Size.kind)]
       ELSE IF rows = <<>> THEN [status |-> "IndexError"]
       ELSE LET pivot == pivot_table(df)
            IN IF pivot.status # "ok" THEN pivot
               ELSE LET columns == Reordered(pivot.columns)
                    IN IF MergedHeader(columns) = <<>> THEN [status |-> "ValueError"]
                       ELSE [status |-> "ok",
                             columns |-> columns,
                             rows |-> DropAll(pivot.rows),
                             merged |-> MergedHeader(columns)]

(* --------------------------- specifications ---------------------------- *)

RECURSIVE TextsUpTo(_)
TextsUpTo(k) ==
    IF k = 0 THEN {<<>>}
    ELSE LET shorter == TextsUpTo(k - 1)
         IN shorter \cup {Append(t, c) : t \in {u \in shorter : Len(u) = k - 1}, c \in Chars}

NoLabels == [KPR |-> "", Marks |-> ""]

NoResult == [status |-> "none"]

Idle == [kind |-> "idle", n |-> 0, d |-> 1]

\* one Size cell of the uploaded file, as read_csv hands it to parse_size
InitParse ==
    /\ pc = "parse"
    /\ cell \in {read_csv_cell(t) : t \in TextsUpTo(MaxLen)}
    /\ size_val = Idle
    /\ upc = NaN /\ labels = NoLabels /\ style_map = StyleMap
    /\ csv = <<>> /\ result = NoResult

ApplyParseSize ==
    /\ pc = "parse"
    /\ size_val' = parse_size(cell)
    /\ pc' = "parsed"
    /\ UNCHANGED <<cell, upc, labels, style_map, csv, result>>

NextParse == ApplyParseSize

SpecParse == InitParse /\ [][NextParse]_vars

\* one UPC/EAN cell of the uploaded file and the style table as imported
InitEnrich ==
    /\ pc = "enrich"
    /\ upc \in {read_csv_cell(t) : t \in TextsUpTo(MaxUpcLen)}
    /\ labels = NoLabels
    /\ style_map = StyleMap
    /\ cell = NaN /\ size_val = Idle
    /\ csv = <<>> /\ result = NoResult

EnrichRow ==
    /\ pc = "enrich"
    /\ labels' = StyleLabels(style_map, VendorStyle(upc))
    /\ pc' = "enriched"
    /\ UNCHANGED <<cell, size_val, upc, style_map, csv, result>>

NextEnrich == EnrichRow

SpecEnrich == InitEnrich /\ [][NextEnrich]_vars

Upcs == {<<"1">>, <<"7">>}

Quantities == {<<"3">>, <<>>, <<"x">>}

Sizes ==
    {<<"2">>, <<"1", "0">>, <<"1", " ", "1", "/", "2">>, <<"/">>, <<"1", " ", "1", "/", "0">>}

Colors == {"Red", "All"}

\* the data rows of a CSV: the four columns the pivot reads
CsvRows == [upc : Upcs, qty : Quantities, size : Sizes, color : Colors]

\* the CSVs of at most k data rows
CsvsUpTo(k) == UNION {[1..n -> CsvRows] : n \in 0..k}

\* a CSV has been uploaded (lines 118-121)
Init ==
    /\ pc = "uploaded"
    /\ csv \in CsvsUpTo(MaxRows)
    /\ result = NoResult
    /\ style_map = StyleMap
    /\ cell = NaN /\ size_val = Idle /\ upc = NaN /\ labels = NoLabels

\* the button is pressed (lines 122-123)
Generate ==
    /\ pc = "uploaded"
    /\ result' = generate_pivot_excel(style_map, csv)
    /\ pc' = "done"
    /\ UNCHANGED <<cell, size_val, upc, labels, style_map, csv>>

Next == Generate

Spec == Init /\ [][Next]_vars

(* ------------------------- claims on parse_size ------------------------ *)

Max(S) == CHOOSE x \in S : \A y \in S : y <= x

\* t between its first and its last character that is not a blank
Core(t) ==
    LET inked == {i \in 1..Len(t) : t[i] # " "}
    IN IF inked = {} THEN <<>> ELSE SubSeq(t, Min(inked), Max(inked))

DigitText(s) == Len(s) > 0 /\ AllDigits(s)

\* c reads <int> <num>/<den>, one blank between, with a nonzero <den>
IsMixed(c) ==
    \E p \in 1..Len(c), q \in 1..Len(c) :
        /\ p < q /\ c[p] = " " /\ c[q] = "/"
        /\ DigitText(SubSeq(c, 1, p - 1))
        /\ DigitText(SubSeq(c, p + 1, q - 1))
        /\ DigitText(SubSeq(c, q + 1, Len(c)))
        /\ DigVal(SubSeq(c, q + 1, Len(c))) # 0

\* int + num/den
MixedValue(c) ==
    LET p == Min(Positions(c, " "))
        q == Min(Positions(c, "/"))
        int == DigVal(SubSeq(c, 1, p - 1))
        num == DigVal(SubSeq(c, p + 1, q - 1))
        den == DigVal(SubSeq(c, q + 1, Len(c)))
    IN Float(int * den + num, den)

\* c is a plain number: digits, or digits "." digits
IsPlain(c) ==
    \/ DigitText(c)
    \/ \E p \in 1..Len(c) :
        c[p] = "." /\ DigitText(SubSeq(c, 1, p - 1)) /\ DigitText(SubSeq(c, p + 1, Len(c)))

\* the number a plain number denotes: whole part plus decimals / 10^k
PlainValue(c) ==
    IF DigitText(c) THEN Float(DigVal(c), 1)
    ELSE LET p == Min(Positions(c, "."))
             k == Len(c) - p
         IN Float(DigVal(SubSeq(c, 1, p - 1)) * Pow10(k) + DigVal(SubSeq(c, p + 1, Len(c))),
                  Pow10(k))

\* C6: parse_size never raises: whatever the Size cell, the result is a number
\* or the absent value.
C6_NeverRaises == pc = "parsed" => size_val.kind \in {"float", "None"}

\* C7: a well-formed Size cell is parsed to its value: "<int> <num>/<den>" to
\* int + num/den, a plain number to the number it denotes, the blanks around
\* either ignored.
C7_WellFormedValue ==
    pc = "parsed" /\ ~isna(cell) =>
        /\ IsMixed(Core(cell)) => size_val = MixedValue(Core(cell))
        /\ IsPlain(Core(cell)) => size_val = PlainValue(Core(cell))

\* "1 1/2" has been parsed to 3/2
C7_Witness ==
    /\ pc = "parsed"
    /\ cell = <<"1", " ", "1", "/", "2">>
    /\ size_val = [kind |-> "float", n |-> 3, d |-> 2]

(* ----------------------- claims on the enrichment ---------------------- *)

IsDigitChar(c) == c \in Digits

\* c is a numeral: digits with at most one "." anywhere, and at least one digit
IsNumeral(c) ==
    /\ \A i \in 1..Len(c) : c[i] \in Digits \cup {"."}
    /\ Cardinality(Positions(c, ".")) <= 1
    /\ \E i \in 1..Len(c) : c[i] \in Digits

\* its digits read as one integer, scaled down by the decimals after the "."
NumeralValue(c) ==
    LET dots == Positions(c, ".")
        k == IF dots = {} THEN 0 ELSE Len(c) - Max(dots)
    IN Float(DigVal(SelectSeq(c, IsDigitChar)), Pow10(k))

\* the vendor codes the UPC/EAN cell denotes: at most one
CodesOf(upc_cell) ==
    IF isna(upc_cell) \/ ~IsNumeral(Core(upc_cell)) THEN {}
    ELSE {NumeralValue(Core(upc_cell))}

\* C8: a UPC/EAN cell that is a number and a key of the style table gets the
\* two labels stored for it; one that is missing, no number or no key gets
\* 'Unknown Style' twice; the table is never modified.
C8_StyleLookup ==
    pc = "enriched" =>
        /\ \A k \in CodesOf(upc) \cap DOMAIN StyleMap :
               labels = [KPR |-> StyleMap[k].KPR, Marks |-> StyleMap[k].Marks]
        /\ CodesOf(upc) \cap DOMAIN StyleMap = {} =>
               labels = [KPR |-> "Unknown Style", Marks |-> "Unknown Style"]
        /\ style_map = StyleMap

\* " 12" has been looked up, blanks stripped, and resolved to its stored labels
C8_Witness ==
    /\ pc = "enriched"
    /\ upc = <<" ", "1", "2">>
    /\ labels = [KPR |-> "StyleB", Marks |-> "StyleY"]

(* -------------------------- claims on the pivot ------------------------ *)

Rows == 1..Len(csv)

\* what the enrichment makes of input row i
RowKey(i) == KeyOf(EnrichedRow(StyleMap, csv[i]))

RowSize(i) == parse_size(read_csv_cell(csv[i].size))

RowQty(i) == EnrichedRow(StyleMap, csv[i]).Qty

RECURSIVE QtySum(_)
QtySum(I) ==
    IF I = {} THEN Float(0, 1)
    ELSE LET i == CHOOSE j \in I : TRUE IN FloatAdd(RowQty(i), QtySum(I \ {i}))

Completed == pc = "done" /\ result.status = "ok"

Rendered == 1..Len(result.rows)

RenderedKey(j) == <<result.rows[j].Color, result.rows[j].KPR, result.rows[j].Marks>>

\* the sizes of the size columns, in the order emitted
SizeHeads ==
    LET cols == SelectSeq(result.columns, IsSizeCol)
    IN [k \in 1..Len(cols) |-> cols[k].size]

SizeSet == {SizeHeads[k] : k \in 1..Len(SizeHeads)}

\* C1: every cell of every rendered row is the sum of the quantities of the
\* input rows of that row's key and that column's size, 0 when there is none.
C1_CellIsSum ==
    Completed =>
        \A j \in Rendered, sz \in SizeSet :
            result.rows[j].cells[sz] =
                QtySum({i \in Rows : RowKey(i) = RenderedKey(j) /\ RowSize(i) = sz})

\* C1 holds of the rows that are not the margin row
C1_CellIsSumOfRealRows ==
    Completed =>
        \A j \in Rendered, sz \in SizeSet :
            result.rows[j].Color # margins_name =>
                result.rows[j].cells[sz] =
                    QtySum({i \in Rows : RowKey(i) = RenderedKey(j) /\ RowSize(i) = sz})

RECURSIVE CellSum(_, _)
CellSum(cells, S) ==
    IF S = {} THEN Float(0, 1)
    ELSE LET sz == CHOOSE x \in S : TRUE IN FloatAdd(cells[sz], CellSum(cells, S \ {sz}))

\* C2: in every rendered row the Grand Total cell is the sum of the row's
\* size-column cells.
C2_GrandTotalColumn ==
    Completed =>
        \A j \in Rendered : result.rows[j].total = CellSum(result.rows[j].cells, SizeSet)

\* a rendered row with two filled size cells and their sum as its total
C2_Witness ==
    /\ Completed
    /\ \E j \in Rendered :
        /\ result.rows[j].Color = "Red"
        /\ Cardinality({sz \in SizeSet : result.rows[j].cells[sz] = Float(3, 1)}) = 2
        /\ result.rows[j].total = Float(6, 1)

\* C3: the synthetic Grand Total row is removed before output: no rendered row
\* has 'Grand Total' as its Color.
C3_NoMarginRow == Completed => \A j \in Rendered : result.rows[j].Color # margins_name

\* the (Color, KPR Style, Mark's Style) combinations among the enriched rows
Combinations == {RowKey(i) : i \in Rows}

\* C4: the rendered rows other than the Grand Total row are, one to one, the
\* distinct (Color, KPR Style, Mark's Style) combinations of the input rows,
\* a Color of 'All' included.
C4_RowsAreCombinations ==
    Completed =>
        LET real == {j \in Rendered : result.rows[j].Color # margins_name}
        IN /\ {RenderedKey(j) : j \in real} = Combinations
           /\ \A j, k \in real : RenderedKey(j) = RenderedKey(k) => j = k

\* C5: a row whose Size is missing or unparsable gets the absent value from
\* parse_size and is still aggregated: there is a column for the absent size
\* and the row's quantity is in the total of its key.
C5_AbsentSizeCounted ==
    Completed =>
        \A i \in Rows :
            RowSize(i) = None =>
                /\ \E k \in 1..Len(result.columns) :
                       result.columns[k].name = "" /\ ~IsSizeCol(result.columns[k])
                /\ \E j \in Rendered :
                       /\ RenderedKey(j) = RowKey(i)
                       /\ result.rows[j].total = QtySum({h \in Rows : RowKey(h) = RowKey(i)})

IsBadQty(q) == q = <<>> \/ ~IsNumeral(q)

\* the CSV with every blank or unparsable quantity written as 0
ZeroFilled(rows) ==
    [i \in 1..Len(rows) |->
        [rows[i] EXCEPT !.qty = IF IsBadQty(rows[i].qty) THEN <<"0">> ELSE rows[i].qty]]

C10_ColumnOrder ==
    Completed =>
        LET n == Len(result.columns)
        IN /\ n >= 5
           /\ result.columns[1] = NameCol("Color")
           /\ result.columns[2] = NameCol("KPR Style")
           /\ result.columns[3] = NameCol("Mark's Style")
           /\ result.columns[n] = NameCol("Grand Total")
           /\ \A k \in 4..(n - 1) : IsSizeCol(result.columns[k])
           /\ \A k \in 4..(n - 2) : FloatLess(result.columns[k].size, result.columns[k + 1].size)
           /\ {result.columns[k].size : k \in 4..(n - 1)} =
                  {RowSize(i) : i \in {h \in Rows : IsFloat(RowSize(h)) /\ csv[h].color # ""}}
           /\ result.merged = <<4, n - 1>>

\* sizes 2 and 10 both occur, 10 first in the file, and 2 is emitted first
C10_Witness ==
    /\ Completed
    /\ Len(csv) = 2
    /\ csv[1].size = <<"1", "0">> /\ csv[2].size = <<"2">>
    /\ result.columns[4] = SizeCol(Float(2, 1))
    /\ result.columns[5] = SizeCol(Float(10, 1))
    /\ result.merged = <<4, 5>>

====
